---- MODULE Spec2Model ----
(***************************************************************************)
(* Community Skills Validator (skills/community-skills/validate-skill.js). *)
(*                                                                         *)
(* The CLI is run again and again (main), one run at a time.  Every await  *)
(* of the code is a step of its own, so that the environment (the clock,   *)
(* the remote README, the cache file) can change between two steps.        *)
(*                                                                         *)
(* Strings are sequences of one-character strings; the literal             *)
(* "https://github.com/" is kept as one token (GH).                        *)
(***************************************************************************)
EXTENDS Integers, Sequences, FiniteSets, TLC

VARIABLES
    now,            \* Date.now(), counted in seconds (see MsPerTick)
    remoteDoc,      \* the README behind awesomeSkillsUrl: a sequence of lines
    cacheFile,      \* approved-skills.json as found on disk
    auditLog,       \* the lines appended to audit.log by the current run
    pc,             \* where the current run is suspended
    skillName,      \* process.argv[2], the argument of validateSkill
    pendingCache,   \* the object saveCache is writing (lines 219-222)
    fetchResult,    \* what fetchApprovedSkills returned or threw
    validateResult, \* what validateSkill returned or threw
    exitCode,       \* process.exit code of main, -1 while running
    hist,           \* observations of the current run (history only)
    procs,          \* validators running side by side on one cache file (RaceSpec)
    approvedSkills, \* the array validateSkill got from fetchApprovedSkills (line 85)
    vc,             \* version-checker.js: its cache file and its current run
    uc,             \* user-update-checker.js: its cache file and its current run
    su,             \* self-update.sh: its current run
    bh              \* browser-health-monitor.sh: its instances and the lock

\* the state of the programs other than the validator
otherPrograms == <<vc, uc, su, bh>>

vars == <<now, remoteDoc, cacheFile, auditLog, pc, skillName, pendingCache,
          fetchResult, validateResult, exitCode, hist, procs, approvedSkills,
          otherPrograms>>

(***************************************************************************)
(* Strings                                                                 *)
(***************************************************************************)
GH == "https://github.com/"

\* String.prototype.toLowerCase, one character
LowerChar(c) ==
    CASE c = "A" -> "a"
      [] c = "B" -> "b"
      [] c = "X" -> "x"
      [] c = "Y" -> "y"
      [] OTHER -> c

toLowerCase(s) == [i \in 1..Len(s) |-> LowerChar(s[i])]

IsSpace(c) == c = " "

\* String.prototype.trim
trim(s) ==
    LET keep == {i \in 1..Len(s) : ~IsSpace(s[i])}
    IN  IF keep = {} THEN <<>>
        ELSE LET lo == CHOOSE i \in keep : \A j \in keep : i <= j
                 hi == CHOOSE i \in keep : \A j \in keep : j <= i
             IN  SubSeq(s, lo, hi)

\* String.prototype.includes
includes(s, sub) ==
    \E i \in 0..(Len(s) - Len(sub)) : SubSeq(s, i + 1, i + Len(sub)) = sub

DotGit == <<".", "g", "i", "t">>

\* stripGitSuffix that strips nothing
keepGitSuffix(repo) == repo

\* repo.replace(/\.git$/, '')
stripGitSuffix(repo) ==
    IF Len(repo) >= 4 /\ SubSeq(repo, Len(repo) - 3, Len(repo)) = DotGit
    THEN SubSeq(repo, 1, Len(repo) - 4)
    ELSE repo

(***************************************************************************)
(* parseSkillsFromReadme                                                   *)
(***************************************************************************)
\* the first index >= from at which line holds character c, 0 when none
IndexFrom(line, c, from) ==
    LET hits == {i \in from..Len(line) : line[i] = c}
    IN  IF hits = {} THEN 0 ELSE CHOOSE i \in hits : \A j \in hits : i <= j

NoMatch == [ok |-> FALSE, name |-> <<>>, owner |-> <<>>, repo |-> <<>>]

\* /\[([^\]]+)\]\(https:\/\/github\.com\/([^\/]+)\/([^)]+)\)/ tried at index i:
\* the groups [ok, name, owner, repo]
MatchAt(line, i) ==
    LET j == IndexFrom(line, "]", i + 1)
        k == IF j = 0 THEN 0 ELSE IndexFrom(line, "/", j + 3)
        m == IF k = 0 THEN 0 ELSE IndexFrom(line, ")", k + 1)
        ok == /\ line[i] = "["
              /\ j > i + 1
              /\ j + 2 <= Len(line)
              /\ line[j + 1] = "("
              /\ line[j + 2] = GH
              /\ k > j + 3
              /\ m > k + 1
    IN  IF ok
        THEN [ok |-> TRUE, name |-> SubSeq(line, i + 1, j - 1),
              owner |-> SubSeq(line, j + 3, k - 1), repo |-> SubSeq(line, k + 1, m - 1)]
        ELSE NoMatch

\* line.match(...): the leftmost match
MatchLine(line) ==
    LET starts == {i \in 1..Len(line) : MatchAt(line, i).ok}
    IN  IF starts = {} THEN NoMatch
        ELSE MatchAt(line, CHOOSE i \in starts : \A j \in starts : i <= j)

\* repoInfo of an entry that validateSkill has not touched (the field is absent)
NoRepoInfo ==
    [present |-> FALSE, hasStars |-> FALSE, stargazers_count |-> 0,
     hasForks |-> FALSE, forks_count |-> 0, hasUpdated |-> FALSE, updated_at |-> 0,
     hasDescription |-> FALSE, descriptionLength |-> 0, license |-> FALSE]

NoScore == -1

\* SkillEntry whose url is rebuilt from the stripped repo
SkillEntryStrippedUrl(line) ==
    LET g == MatchLine(line)
    IN  [name |-> trim(toLowerCase(g.name)),
         owner |-> g.owner,
         repo |-> stripGitSuffix(g.repo),
         url |-> <<GH>> \o g.owner \o <<"/">> \o stripGitSuffix(g.repo),
         parsedFrom |-> trim(line),
         repoInfo |-> NoRepoInfo,
         safetyScore |-> NoScore]

\* the object pushed at lines 68-74
SkillEntry(line) ==
    LET g == MatchLine(line)
    IN  [name |-> trim(toLowerCase(g.name)),
         owner |-> g.owner,
         repo |-> stripGitSuffix(g.repo),
         url |-> <<GH>> \o g.owner \o <<"/">> \o g.repo,
         parsedFrom |-> trim(line),
         repoInfo |-> NoRepoInfo,
         safetyScore |-> NoScore]

RECURSIVE parseSkillsFromReadme(_)
parseSkillsFromReadme(content) ==
    IF content = <<>> THEN <<>>
    ELSE LET line == Head(content)
             rest == parseSkillsFromReadme(Tail(content))
         IN  IF MatchLine(line).ok THEN <<SkillEntry(line)>> \o rest ELSE rest

(***************************************************************************)
(* Approval cache: loadCache, saveCache                                    *)
(***************************************************************************)
\* The clock of the model ticks once a second: TLC's integers are 32 bits wide
\* and 180 days of milliseconds do not fit.  Every duration of the code is a
\* multiple of 1000 ms, so each comparison reads the same in seconds.
MsPerTick == 1000

\* this.cacheTimeout (line 17)
cacheTimeout == (60 * 60 * 1000) \div MsPerTick

AbsentFile == [kind |-> "absent", timestamp |-> 0, skills |-> <<>>]

\* what a damaged approved-skills.json can hold: "unreadable" (readFile rejects),
\* "garbage" (not JSON, JSON.parse throws), "object" (a JSON object without
\* timestamp and skills, such as {})
CorruptKinds == {"unreadable", "garbage", "object"}

DamagedFile(kind) == [kind |-> kind, timestamp |-> 0, skills |-> <<>>]

NullCache ==
    [isNull |-> TRUE, hasTimestamp |-> FALSE, timestamp |-> 0,
     hasSkills |-> FALSE, skills |-> <<>>]

\* stringifyEntry that loses the parsedFrom field
stringifyEntryLossy(e) ==
    [name |-> e.name, owner |-> e.owner, repo |-> e.repo, url |-> e.url,
     parsedFrom |-> <<>>, repoInfo |-> NoRepoInfo, safetyScore |-> NoScore]

\* JSON.stringify of one entry: an undefined field is left out, strings are kept
stringifyEntry(e) ==
    [name |-> e.name, owner |-> e.owner, repo |-> e.repo, url |-> e.url,
     parsedFrom |-> e.parsedFrom,
     repoInfo |-> IF e.repoInfo.present THEN e.repoInfo ELSE NoRepoInfo,
     safetyScore |-> IF e.safetyScore = NoScore THEN NoScore ELSE e.safetyScore]

\* stringifyCache that loses the last entry
stringifyCacheShort(cache) ==
    [kind |-> "cache", timestamp |-> cache.timestamp,
     skills |-> [i \in 1..(Len(cache.skills) - 1) |-> stringifyEntry(cache.skills[i])]]

\* JSON.stringify(cache, null, 2) as written by fs.writeFile
stringifyCache(cache) ==
    [kind |-> "cache", timestamp |-> cache.timestamp,
     skills |-> [i \in 1..Len(cache.skills) |-> stringifyEntry(cache.skills[i])]]

\* the object built at lines 219-222
CacheObject(skills, t) ==
    [isNull |-> FALSE, hasTimestamp |-> TRUE, timestamp |-> t,
     hasSkills |-> TRUE, skills |-> skills]

\* loadCache: readFile + JSON.parse, every failure is a null
loadCache(file) ==
    CASE file.kind = "cache" ->
            [isNull |-> FALSE, hasTimestamp |-> TRUE, timestamp |-> file.timestamp,
             hasSkills |-> TRUE, skills |-> file.skills]
      [] file.kind = "object" ->
            [isNull |-> FALSE, hasTimestamp |-> FALSE, timestamp |-> 0,
             hasSkills |-> FALSE, skills |-> <<>>]
      [] OTHER -> NullCache

\* IsFresh with <= for <
IsFreshInclusive(cache, t) ==
    /\ ~cache.isNull
    /\ cache.hasTimestamp
    /\ t - cache.timestamp <= cacheTimeout

\* cache && Date.now() - cache.timestamp < this.cacheTimeout
\* (an undefined timestamp gives NaN, and NaN < x is false)
IsFresh(cache, t) ==
    /\ ~cache.isNull
    /\ cache.hasTimestamp
    /\ t - cache.timestamp < cacheTimeout

(***************************************************************************)
(* calculateSafetyScore                                                    *)
(***************************************************************************)
\* (1000 * 60 * 60 * 24) of line 147
DayMs == (1000 * 60 * 60 * 24) \div MsPerTick

\* fetchRepoInfo's {} after a failed request
EmptyInfo == [NoRepoInfo EXCEPT !.present = TRUE]

\* calculateSafetyScore with its first line kept or dropped (guarded) and with
\* top points for 100 stars and more
scoreVariant(repoInfo, t, guarded, top) ==
    IF guarded /\ (~repoInfo.present \/ ~repoInfo.hasStars \/ repoInfo.stargazers_count = 0)
    THEN 0
    ELSE (IF ~repoInfo.hasStars THEN 0
          ELSE IF repoInfo.stargazers_count >= 100 THEN top
          ELSE IF repoInfo.stargazers_count >= 20 THEN 2
          ELSE IF repoInfo.stargazers_count >= 5 THEN 1 ELSE 0)
       + (IF ~repoInfo.hasForks THEN 0
          ELSE IF repoInfo.forks_count >= 10 THEN 2
          ELSE IF repoInfo.forks_count >= 2 THEN 1 ELSE 0)
       + (IF ~repoInfo.hasUpdated THEN 0
          ELSE IF t - repoInfo.updated_at <= 30 * DayMs THEN 3
          ELSE IF t - repoInfo.updated_at <= 90 * DayMs THEN 2
          ELSE IF t - repoInfo.updated_at <= 180 * DayMs THEN 1 ELSE 0)
       + (IF repoInfo.hasDescription /\ repoInfo.descriptionLength > 10 THEN 1 ELSE 0)
       + (IF repoInfo.license THEN 1 ELSE 0)

\* calculateSafetyScore that gives 4 points for 100 stars and more
calculateSafetyScoreUncapped(repoInfo, t) == scoreVariant(repoInfo, t, TRUE, 4)

\* calculateSafetyScore without the early return of line 132
calculateSafetyScoreUnguarded(repoInfo, t) == scoreVariant(repoInfo, t, FALSE, 3)

\* calculateSafetyScore that gives 1 point for 100 stars and more
calculateSafetyScoreDip(repoInfo, t) == scoreVariant(repoInfo, t, TRUE, 1)

calculateSafetyScore(repoInfo, t) ==
    IF ~repoInfo.present \/ ~repoInfo.hasStars \/ repoInfo.stargazers_count = 0
    THEN 0
    ELSE LET stars == IF repoInfo.stargazers_count >= 100 THEN 3
                      ELSE IF repoInfo.stargazers_count >= 20 THEN 2
                      ELSE IF repoInfo.stargazers_count >= 5 THEN 1 ELSE 0
             forks == IF ~repoInfo.hasForks THEN 0
                      ELSE IF repoInfo.forks_count >= 10 THEN 2
                      ELSE IF repoInfo.forks_count >= 2 THEN 1 ELSE 0
             \* daysSinceUpdate <= d  iff  Date.now() - lastUpdate <= d days
             age == t - repoInfo.updated_at
             recent == IF ~repoInfo.hasUpdated THEN 0
                       ELSE IF age <= 30 * DayMs THEN 3
                       ELSE IF age <= 90 * DayMs THEN 2
                       ELSE IF age <= 180 * DayMs THEN 1 ELSE 0
             descr == IF repoInfo.hasDescription /\ repoInfo.descriptionLength > 10
                      THEN 1 ELSE 0
             lic == IF repoInfo.license THEN 1 ELSE 0
         IN  stars + forks + recent + descr + lic

\* the label shown by promptInstallation (lines 176-178)
safetyLevel(score) ==
    IF score >= 7 THEN "Excellent"
    ELSE IF score >= 5 THEN "Good"
    ELSE IF score >= 3 THEN "Fair" ELSE "Low"

(***************************************************************************)
(* validateSkill: the lookup                                               *)
(***************************************************************************)
normalize(name) == trim(toLowerCase(name))

\* the predicate of approvedSkills.find (lines 86-90)
Matches(s, normalizedName) ==
    \/ s.name = normalizedName
    \/ toLowerCase(s.repo) = normalizedName
    \/ includes(toLowerCase(s.repo), normalizedName)

\* FindSkill that prefers a match by name to a match by repo, and an equal
\* repo to a repo that contains the name
FindSkillTiered(skills, normalizedName) ==
    LET First(S) == IF S = {} THEN 0 ELSE CHOOSE i \in S : \A j \in S : i <= j
        idx == 1..Len(skills)
        byName == {i \in idx : skills[i].name = normalizedName}
        byRepo == {i \in idx : toLowerCase(skills[i].repo) = normalizedName}
        bySub == {i \in idx : includes(toLowerCase(skills[i].repo), normalizedName)}
    IN  IF byName # {} THEN First(byName)
        ELSE IF byRepo # {} THEN First(byRepo) ELSE First(bySub)

\* Array.prototype.find: the index of the first entry that satisfies the
\* predicate, 0 when there is none
FindSkill(skills, normalizedName) ==
    LET hits == {i \in 1..Len(skills) : Matches(skills[i], normalizedName)}
    IN  IF hits = {} THEN 0 ELSE CHOOSE i \in hits : \A j \in hits : i <= j

\* Confirmed that takes the empty answer for a yes
ConfirmedByDefault(answer) ==
    LET a == trim(toLowerCase(answer))
    IN  a = <<>> \/ a = <<"y">> \/ a = <<"y", "e", "s">>

\* promptInstallation, line 192
Confirmed(answer) ==
    LET a == trim(toLowerCase(answer))
    IN  a = <<"y">> \/ a = <<"y", "e", "s">>

(***************************************************************************)
(* Inputs                                                                  *)
(***************************************************************************)
\* the clock is read at 0 and, for k in 1..MaxEpochs, one tick before
\* k * cacheTimeout and at k * cacheTimeout
MaxEpochs == 1

TimePoints == {0} \cup {k * cacheTimeout + d : k \in 1..MaxEpochs, d \in {-1, 0}}

\* "- [Ab](https://github.com/o/Xa.git) b"
LineAb == <<"-", " ", "[", "A", "b", "]", "(", GH, "o", "/", "X", "a", ".", "g", "i", "t", ")", " ", "b">>
\* "[b](https://github.com/p/ab)"
LineB == <<"[", "b", "]", "(", GH, "p", "/", "a", "b", ")">>
\* "[c](https://github.com/o/ab)"
LineC == <<"[", "c", "]", "(", GH, "o", "/", "a", "b", ")">>
\* "[b](https://github.com/p/q)"
LineBq == <<"[", "b", "]", "(", GH, "p", "/", "q", ")">>
\* "# a"
LineText == <<"#", " ", "a">>

DocOne == <<LineText, LineAb, LineB>>
DocTwo == <<LineC, LineBq>>

Docs == {DocOne, DocTwo}

\* skill names given to validateSkill and to the CLI
Names == {<<" ", "B">>, <<"a">>, <<"X", "a">>, <<"z">>, <<" ">>}

\* lines typed at the prompt of promptInstallation
Answers == {<<"y">>, <<"Y", "e", "s", " ">>, <<"n">>, <<>>, <<"y", "e">>}

\* bodies of GET /repos/<owner>/<repo>
HighInfo ==
    [present |-> TRUE, hasStars |-> TRUE, stargazers_count |-> 150,
     hasForks |-> TRUE, forks_count |-> 25, hasUpdated |-> TRUE,
     updated_at |-> 0 - 10 * DayMs, hasDescription |-> TRUE, descriptionLength |-> 56,
     license |-> TRUE]

LowInfo ==
    [present |-> TRUE, hasStars |-> TRUE, stargazers_count |-> 1,
     hasForks |-> TRUE, forks_count |-> 0, hasUpdated |-> TRUE,
     updated_at |-> 0 - 200 * DayMs, hasDescription |-> TRUE, descriptionLength |-> 4,
     license |-> FALSE]

RepoInfos == {HighInfo, LowInfo}

\* README lines for the parser on its own.  A link line is
\* prefix [label](https://github.com/owner/repo) suffix, with the name and the
\* repo its entry is to have written next to the text of the link
Prefixes == {<<>>, <<"-", " ">>}
Labels ==
    {[text |-> <<"A", "b">>, name |-> <<"a", "b">>],
     [text |-> <<" ", "B", " ">>, name |-> <<"b">>]}
Owners == {<<"o">>}
Repos ==
    {[text |-> <<"X", "a", ".", "g", "i", "t">>, repo |-> <<"X", "a">>],
     [text |-> <<"a", "b">>, repo |-> <<"a", "b">>],
     [text |-> <<"a", "/", "b">>, repo |-> <<"a", "/", "b">>]}
\* nothing, a description, a second link
Suffixes == {<<>>, <<" ", "[", "b", "]", "(", GH, "p", "/", "q", ")">>}

Links ==
    [prefix : Prefixes, label : Labels, owner : Owners, repo : Repos, suffix : Suffixes]

LinkLine(l) ==
    l.prefix \o <<"[">> \o l.label.text \o <<"]", "(", GH>> \o l.owner \o <<"/">>
    \o l.repo.text \o <<")">> \o l.suffix

\* lines without a link: a heading, a link to another host, a link without
\* a label, a link without a repo, a link that is not closed
OtherLines ==
    {LineText,
     <<"[", "b", "]", "(", "https://gitlab.com/", "o", "/", "a", "b", ")">>,
     <<"[", "]", "(", GH, "o", "/", "a", "b", ")">>,
     <<"[", "b", "]", "(", GH, "o", "/", ")">>,
     <<"[", "b", "]", "(", GH, "o", "/", "a", "b">>}

ReadmeLines == {LinkLine(l) : l \in Links} \cup OtherLines

\* READMEs of up to MaxLines lines
MaxLines == 2

Readmes == UNION {[1..n -> ReadmeLines] : n \in 0..MaxLines}

\* metadata values for the scorer on its own: every field absent or present,
\* the numbers on both sides of every threshold of lines 137-153
StarCounts == {0, 1, 4, 5, 19, 20, 99, 100, 150}
ForkCounts == {0, 1, 2, 9, 10, 25}
DescriptionLengths == {0, 4, 10, 11, 56}
\* Date.now() - lastUpdate: a day in the future, and 10 to 200 days, on a
\* threshold and one tick after it
Ages == {0 - DayMs} \cup {d * DayMs + e : d \in {10, 30, 90, 180, 200}, e \in {0, 1}}

Metadata(t) ==
    {NoRepoInfo} \cup
    {[present |-> TRUE,
      hasStars |-> st[1], stargazers_count |-> st[2],
      hasForks |-> fk[1], forks_count |-> fk[2],
      hasUpdated |-> up[1], updated_at |-> up[2],
      hasDescription |-> de[1], descriptionLength |-> de[2],
      license |-> lic] :
        st \in {<<FALSE, 0>>} \cup {<<TRUE, n>> : n \in StarCounts},
        fk \in {<<FALSE, 0>>} \cup {<<TRUE, n>> : n \in ForkCounts},
        up \in {<<FALSE, 0>>} \cup {<<TRUE, t - a>> : a \in Ages},
        de \in {<<FALSE, 0>>} \cup {<<TRUE, n>> : n \in DescriptionLengths},
        lic \in BOOLEAN}

(***************************************************************************)
(* State                                                                   *)
(***************************************************************************)
\* .version-cache.json: absent, not JSON ("corrupt"), or what cacheReport wrote
NoVersionCache ==
    [kind |-> "absent", commitsBehind |-> 0, upstreamCommit |-> 0,
     hasLastAlert |-> FALSE, lastAlert |-> 0]

NoReport == [timestamp |-> 0, commitsBehind |-> 0, commit |-> 0, needsAlert |-> FALSE]

\* version-checker.js between two runs; sent: the upstream commits a version
\* alert was delivered for; lastSent: the time of the last delivery
NoVc ==
    [pc |-> "idle", file |-> NoVersionCache, report |-> NoReport,
     decided |-> "none", wrote |-> "none", sent |-> {}, sentBefore |-> {},
     lastSent |-> -1, upstream |-> 1]
\* .user-update-cache.json: absent, not JSON ("corrupt"), or a record; only
\* lastAlertOriginCommit and lastAlertTime are ever read back
NoUserCache ==
    [kind |-> "absent", status |-> "none", originCommit |-> 0,
     hasLastAlert |-> FALSE, lastAlertOriginCommit |-> 0, lastAlertTime |-> 0]

NoUserReport == [commitsBehind |-> 0, commit |-> 0, commits |-> {}, urgency |-> "none"]

\* user-update-checker.js between two runs; configured: TELEGRAM_BOT_TOKEN and
\* TELEGRAM_CHAT_ID are set; deliveries: the notifications Telegram accepted,
\* as [commit, at]; atStart: the cache file when the run began
NoUc ==
    [pc |-> "idle", configured |-> TRUE, file |-> NoUserCache,
     report |-> NoUserReport, origin |-> 1, runs |-> 0,
     sendOutcome |-> "none", marked |-> FALSE, writeFailed |-> FALSE,
     deliveries |-> <<>>, atStart |-> NoUserCache]
\* self-update.sh before it is started; exit: -1 while it runs; out: the
\* lines of interest it has printed
NoSu ==
    [pc |-> "idle", mode |-> "none", preflight |-> "none", fetched |-> FALSE,
     behind |-> 0, stashed |-> FALSE, pulled |-> FALSE, popped |-> "none",
     restart |-> "none", exit |-> -1, out |-> {}]
\* the processes that run browser-health-monitor.sh
Instances == {1, 2}

\* one of them: opened: fd 200 is open on the lock file; checked: the health
\* checks run so far; refused: flock found the lock taken
IdleInstance ==
    [pc |-> "idle", opened |-> FALSE, refused |-> FALSE, checked |-> 0,
     issues |-> 0, triggered |-> FALSE, cleanup |-> "none", exit |-> -1]

\* lock: the instance that holds the lock on /tmp/browser-health-monitor.lock,
\* 0 when it is free
NoBh == [lock |-> 0, inst |-> [i \in Instances |-> IdleInstance]]

NoSkill ==
    [name |-> <<>>, owner |-> <<>>, repo |-> <<>>, url |-> <<>>, parsedFrom |-> <<>>,
     repoInfo |-> NoRepoInfo, safetyScore |-> NoScore]

\* error.message of the Error thrown at line 55
ListUnavailable ==
    <<"Cannot", "validate", "skills", "-", "no", "approved", "list", "available">>
\* approvedSkills.find on undefined (line 86)
TypeError == <<"Cannot", "read", "properties", "of", "undefined">>
NoError == <<>>

NoFetch == [status |-> "none", list |-> <<>>, from |-> "none"]
NoValidate ==
    [status |-> "none", approved |-> FALSE, reason |-> <<>>, skill |-> NoSkill,
     safetyScore |-> NoScore, error |-> NoError]


NotFoundReason == <<"Not", "found", "in", "awesome-openclaw-skills", "repository">>
NotFoundLogged == <<"Not", "found", "in", "awesome-openclaw-skills">>

\* prev: the list the previous run's fetchApprovedSkills returned, remembered
\* for as long as neither the README nor the cache file is touched from outside;
\* disturbed: one of them was touched since the current run's call settled
NoPrev == [valid |-> FALSE, list |-> <<>>]

NoHist ==
    [checkAt |-> -1, fetchedAt |-> -1, listRequests |-> 0, metaRequests |-> 0,
     listOutcome |-> "none", writeOutcome |-> "none", metaOutcome |-> "none",
     matched |-> 0,
     logAttempts |-> <<>>, answered |-> FALSE, answer |-> <<>>, error |-> NoError,
     disturbed |-> FALSE, prev |-> NoPrev]

\* a validator among several: where its fetchApprovedSkills is suspended,
\* the list it has parsed, what it returned, and its place in the order in
\* which the writes of the cache ended (0: it has not written)
Procs == {1, 2}

IdleProc == [pc |-> "idle", pending |-> NullCache, result |-> NoFetch, wroteAt |-> 0]

NoProcs == [p \in Procs |-> IdleProc]

\* the other programs are not running
OthersIdle ==
    /\ vc = NoVc
    /\ uc = NoUc
    /\ su = NoSu
    /\ bh = NoBh

Init ==
    /\ now = 0
    /\ remoteDoc \in Docs
    /\ cacheFile = AbsentFile
    /\ auditLog = <<>>
    /\ pc = "idle"
    /\ skillName = <<>>
    /\ pendingCache = NullCache
    /\ fetchResult = NoFetch
    /\ validateResult = NoValidate
    /\ exitCode = -1
    /\ hist = NoHist
    /\ procs = NoProcs
    /\ approvedSkills = <<>>
    /\ OthersIdle

(***************************************************************************)
(* httpRequest                                                             *)
(***************************************************************************)
\* what https.get delivers: an 'error' event, or a status code and a body
\* ("json": the JSON the endpoint documents, "other": anything else)
Responses ==
    {[error |-> TRUE, statusCode |-> 0, body |-> "none"],
     [error |-> FALSE, statusCode |-> 200, body |-> "json"],
     [error |-> FALSE, statusCode |-> 200, body |-> "other"],
     [error |-> FALSE, statusCode |-> 403, body |-> "json"]}

\* httpRequest resolves (lines 244-245), otherwise it rejects
Resolves(res) == ~res.error /\ res.statusCode >= 200 /\ res.statusCode < 300

\* lines 32-34: the request resolved and its body parsed as the README envelope
ListFetched(res) == Resolves(res) /\ res.body = "json"

\* fetchRepoInfo without its try/catch result: the body is trusted as it is
fetchRepoInfoUnguarded(res, info) == info

\* fetchRepoInfo (lines 120-129): the parsed body, {} after any failure
fetchRepoInfo(res, info) == IF Resolves(res) /\ res.body = "json" THEN info ELSE EmptyInfo

(***************************************************************************)
(* logAttempt                                                              *)
(***************************************************************************)
\* LogEntry that writes "User: true" on every line
LogEntryUserTrue(name, result, reason, userConfirmed) ==
    [timestamp |-> now, skillName |-> name, result |-> result, reason |-> reason,
     user |-> TRUE]

\* the line built at lines 199-200
LogEntry(name, result, reason, userConfirmed) ==
    [timestamp |-> now, skillName |-> name, result |-> result, reason |-> reason,
     user |-> userConfirmed]

\* fs.appendFile inside try/catch: the line is appended, or only a warning is printed
logAttempt(h, name, result, reason, userConfirmed, appended) ==
    /\ auditLog' = IF appended
                   THEN Append(auditLog, LogEntry(name, result, reason, userConfirmed))
                   ELSE auditLog
    /\ hist' = [h EXCEPT !.logAttempts =
                    Append(@, [result |-> result, appended |-> appended])]

(***************************************************************************)
(* fetchApprovedSkills                                                     *)
(***************************************************************************)
Returned(cache, from) ==
    IF cache.hasSkills
    THEN [status |-> "list", list |-> cache.skills, from |-> from]
    ELSE [status |-> "undefined", list |-> <<>>, from |-> from]

Threw == [status |-> "threw", list |-> <<>>, from |-> "none"]

\* FallbackResult without the stale fallback
FallbackAlwaysThrows(cache) == Threw

\* FallbackResult that returns an empty list where the code throws
FallbackEmptyList(cache) ==
    IF ~cache.isNull THEN Returned(cache, "stale")
    ELSE [status |-> "list", list |-> <<>>, from |-> "stale"]

\* lines 49-55
FallbackResult(cache) ==
    IF ~cache.isNull THEN Returned(cache, "stale") ELSE Threw

\* the call settles with r; its caller resumes
FetchSettles(r, h) ==
    /\ fetchResult' = r
    /\ pc' = IF r.status = "threw" THEN "valCatch" ELSE "lookup"
    /\ hist' = [h EXCEPT
                  !.error = IF r.status = "threw" THEN ListUnavailable ELSE @,
                  !.disturbed = FALSE]

\* lines 24-32: the cache is read; a fresh one is returned, otherwise the
\* request for the README is sent
CheckCache ==
    /\ pc = "checkCache"
    /\ UNCHANGED <<otherPrograms, approvedSkills, procs, now, remoteDoc, cacheFile, auditLog, skillName, pendingCache,
                   validateResult, exitCode>>
    /\ LET cache == loadCache(cacheFile)
           h == [hist EXCEPT !.checkAt = now]
       IN  IF IsFresh(cache, now)
           THEN FetchSettles(Returned(cache, "cache"), h)
           ELSE /\ pc' = "awaitList"
                /\ hist' = [h EXCEPT !.listRequests = @ + 1]
                /\ UNCHANGED fetchResult

\* a list request that is issued again after a failure
ListResponseRetries ==
    /\ pc = "awaitList"
    /\ UNCHANGED <<otherPrograms, approvedSkills, procs, now, remoteDoc, cacheFile, auditLog, skillName, fetchResult,
                   validateResult, exitCode>>
    /\ \E res \in Responses :
          IF ListFetched(res)
          THEN /\ pendingCache' = CacheObject(parseSkillsFromReadme(remoteDoc), now)
               /\ pc' = "saveCache"
               /\ hist' = [hist EXCEPT !.listOutcome = "ok", !.fetchedAt = now]
          ELSE /\ pc' = IF hist.listRequests < 2 THEN "awaitList" ELSE "fallback"
               /\ hist' = [hist EXCEPT !.listOutcome = "failed",
                                       !.listRequests = IF @ < 2 THEN @ + 1 ELSE @]
               /\ UNCHANGED pendingCache

\* lines 32-40: the response arrives; the README is parsed and saveCache starts
ListResponse ==
    /\ pc = "awaitList"
    /\ UNCHANGED <<otherPrograms, approvedSkills, procs, now, remoteDoc, cacheFile, auditLog, skillName, fetchResult,
                   validateResult, exitCode>>
    /\ \E res \in Responses :
          IF ListFetched(res)
          THEN /\ pendingCache' = CacheObject(parseSkillsFromReadme(remoteDoc), now)
               /\ pc' = "saveCache"
               /\ hist' = [hist EXCEPT !.listOutcome = "ok", !.fetchedAt = now]
          ELSE /\ pc' = "fallback"
               /\ hist' = [hist EXCEPT !.listOutcome = "failed"]
               /\ UNCHANGED pendingCache

\* lines 224-228 and 42-43: writeFile ends (written, refused, or failed after
\* the file was truncated) and the parsed list is returned
SaveCacheDone ==
    /\ pc = "saveCache"
    /\ UNCHANGED <<otherPrograms, approvedSkills, procs, now, remoteDoc, auditLog, skillName, validateResult, exitCode>>
    /\ \E w \in {"written", "refused", "truncated"} :
          /\ cacheFile' = CASE w = "written" -> stringifyCache(pendingCache)
                            [] w = "refused" -> cacheFile
                            [] OTHER -> DamagedFile("garbage")
          /\ FetchSettles(Returned(pendingCache, "remote"),
                          [hist EXCEPT !.writeOutcome = w])
    /\ pendingCache' = NullCache

\* a catch block that removes the cache file it could not refresh
FallbackStaleDeletes ==
    /\ pc = "fallback"
    /\ cacheFile' = AbsentFile
    /\ UNCHANGED <<otherPrograms, approvedSkills, procs, now, remoteDoc, auditLog, skillName, pendingCache,
                   validateResult, exitCode>>
    /\ FetchSettles(FallbackResult(loadCache(cacheFile)), hist)

\* lines 45-56
FallbackStale ==
    /\ pc = "fallback"
    /\ UNCHANGED <<otherPrograms, approvedSkills, procs, now, remoteDoc, cacheFile, auditLog, skillName, pendingCache,
                   validateResult, exitCode>>
    /\ FetchSettles(FallbackResult(loadCache(cacheFile)), hist)

(***************************************************************************)
(* validateSkill and main                                                  *)
(***************************************************************************)
\* lines 257-269: without a skill name the run prints the usage and exits 1
Main ==
    /\ pc = "idle"
    /\ \E n \in Names \cup {<<>>} :
          /\ skillName' = n
          /\ IF n = <<>>
             THEN pc' = "exited" /\ exitCode' = 1
             ELSE pc' = "checkCache" /\ exitCode' = -1
    /\ UNCHANGED <<otherPrograms, approvedSkills, procs, now, remoteDoc, cacheFile, auditLog, pendingCache, fetchResult,
                   validateResult, hist>>

\* validateSkill has settled: main goes on to the prompt, or exits 1 on a
\* rejection (lines 271-276) and on an exception (lines 292-295)
ValidateSettles(r) ==
    /\ validateResult' = r
    /\ IF r.status = "approved"
       THEN pc' = "prompt" /\ exitCode' = exitCode
       ELSE pc' = "exited" /\ exitCode' = 1

\* Rejected with the reason left out
RejectedWithoutReason == [NoValidate EXCEPT !.status = "rejected"]

\* the object returned at lines 94-98
Rejected ==
    [NoValidate EXCEPT !.status = "rejected", !.approved = FALSE,
                       !.reason = NotFoundReason]

\* Thrown that turns the error into a rejection
ThrownAsRejected(message) == Rejected

\* validateSkill rethrows the error it caught (line 116)
Thrown(message) == [NoValidate EXCEPT !.status = "threw", !.error = message]

\* lines 86-99: the lookup; no match is logged and returned, a match sends the
\* metadata request; a list that is undefined makes find throw
Lookup ==
    /\ pc = "lookup"
    /\ approvedSkills' = IF fetchResult.status = "list" THEN fetchResult.list
                         ELSE approvedSkills
    /\ UNCHANGED <<otherPrograms, procs, now, remoteDoc, cacheFile, skillName, pendingCache, fetchResult>>
    /\ IF fetchResult.status = "undefined"
       THEN /\ pc' = "valCatch"
            /\ hist' = [hist EXCEPT !.error = TypeError]
            /\ UNCHANGED <<auditLog, validateResult, exitCode>>
       ELSE LET i == FindSkill(fetchResult.list, normalize(skillName))
            IN  IF i = 0
                THEN /\ \E appended \in BOOLEAN :
                           logAttempt(hist, skillName, "REJECTED", NotFoundLogged,
                                      FALSE, appended)
                     /\ ValidateSettles(Rejected)
                ELSE /\ pc' = "awaitRepoInfo"
                     /\ hist' = [hist EXCEPT !.matched = i, !.metaRequests = @ + 1]
                     /\ UNCHANGED <<auditLog, validateResult, exitCode>>

\* lines 114-117
ValCatch ==
    /\ pc = "valCatch"
    /\ UNCHANGED <<otherPrograms, approvedSkills, procs, now, remoteDoc, cacheFile, skillName, pendingCache, fetchResult>>
    /\ \E appended \in BOOLEAN :
          logAttempt(hist, skillName, "ERROR", hist.error, FALSE, appended)
    /\ ValidateSettles(Thrown(hist.error))

\* annotate that writes the repository's full name into the entry's name
annotateRenaming(skill, repoInfo, safetyScore) ==
    [skill EXCEPT !.name = skill.owner \o <<"/">> \o skill.repo,
                  !.repoInfo = repoInfo, !.safetyScore = safetyScore]

\* skill.repoInfo = repoInfo; skill.safetyScore = safetyScore (lines 103, 106):
\* the entry object of the array is written to
annotate(skill, repoInfo, safetyScore) ==
    [skill EXCEPT !.repoInfo = repoInfo, !.safetyScore = safetyScore]

\* lines 101-112: the metadata arrives (or not), the matched entry of the
\* array is given its repoInfo and safetyScore and is returned
RepoInfoResponse ==
    /\ pc = "awaitRepoInfo"
    /\ UNCHANGED <<otherPrograms, procs, now, remoteDoc, cacheFile, auditLog, skillName, pendingCache,
                   fetchResult>>
    /\ \E res \in Responses, info \in RepoInfos :
          LET repoInfo == fetchRepoInfo(res, info)
              safetyScore == calculateSafetyScore(repoInfo, now)
              skill == annotate(approvedSkills[hist.matched], repoInfo, safetyScore)
          IN  /\ approvedSkills' = [approvedSkills EXCEPT ![hist.matched] = skill]
              /\ ValidateSettles([NoValidate EXCEPT !.status = "approved",
                                      !.approved = TRUE, !.skill = skill,
                                      !.safetyScore = safetyScore])
              /\ hist' = [hist EXCEPT !.metaOutcome =
                              IF Resolves(res) /\ res.body = "json" THEN "ok"
                              ELSE "failed"]

\* lines 189-195 and 278-290: the answer is read, the decision is logged, exit
Answer ==
    /\ pc = "prompt"
    /\ UNCHANGED <<otherPrograms, approvedSkills, procs, now, remoteDoc, cacheFile, skillName, pendingCache, fetchResult,
                   validateResult>>
    /\ \E answer \in Answers, appended \in BOOLEAN :
          LET h == [hist EXCEPT !.answered = TRUE, !.answer = answer]
          IN  IF Confirmed(answer)
              THEN /\ logAttempt(h, skillName, "APPROVED",
                                 <<"User", "confirmed", "installation">>, TRUE, appended)
                   /\ exitCode' = 0
              ELSE /\ logAttempt(h, skillName, "DECLINED",
                                 <<"User", "declined", "installation">>, FALSE, appended)
                   /\ exitCode' = 1
    /\ pc' = "exited"

\* the process has exited: the next run starts afresh
Finish ==
    /\ pc = "exited"
    /\ pc' = "idle"
    /\ skillName' = <<>>
    /\ auditLog' = <<>>
    /\ pendingCache' = NullCache
    /\ fetchResult' = NoFetch
    /\ validateResult' = NoValidate
    /\ exitCode' = -1
    /\ hist' = [NoHist EXCEPT !.prev =
                    IF fetchResult.status = "list" /\ ~hist.disturbed
                    THEN [valid |-> TRUE, list |-> fetchResult.list]
                    ELSE NoPrev]
    /\ approvedSkills' = <<>>
    /\ UNCHANGED <<otherPrograms, procs, now, remoteDoc, cacheFile>>

(***************************************************************************)
(* Environment                                                             *)
(***************************************************************************)
Tick ==
    /\ \E t \in TimePoints : t > now /\ now' = t
    /\ UNCHANGED <<otherPrograms, approvedSkills, procs, remoteDoc, cacheFile, auditLog, pc, skillName,
                   pendingCache, fetchResult, validateResult, exitCode, hist>>

\* the maintainers edit the README
RemoteChange ==
    /\ \E d \in Docs : d # remoteDoc /\ remoteDoc' = d
    /\ hist' = [hist EXCEPT !.prev = NoPrev, !.disturbed = TRUE]
    /\ UNCHANGED <<otherPrograms, approvedSkills, procs, now, cacheFile, auditLog, pc, skillName, pendingCache,
                   fetchResult, validateResult, exitCode>>

\* the cache file is deleted or damaged from outside
CacheDamaged ==
    /\ \E k \in CorruptKinds \cup {"absent"} :
          /\ cacheFile.kind # k
          /\ cacheFile' = DamagedFile(k)
    /\ hist' = [hist EXCEPT !.prev = NoPrev, !.disturbed = TRUE]
    /\ UNCHANGED <<otherPrograms, approvedSkills, procs, now, remoteDoc, auditLog, pc, skillName, pendingCache,
                   fetchResult, validateResult, exitCode>>

Next ==
    \/ Main
    \/ CheckCache
    \/ ListResponse
    \/ SaveCacheDone
    \/ FallbackStale
    \/ Lookup
    \/ ValCatch
    \/ RepoInfoResponse
    \/ Answer
    \/ Finish
    \/ Tick
    \/ RemoteChange
    \/ CacheDamaged

Spec == Init /\ [][Next]_vars

(***************************************************************************)
(* The scorer on its own: calculateSafetyScore applied to every metadata   *)
(* value, as validateSkill applies it at lines 103-106                     *)
(***************************************************************************)
ScoreInit ==
    /\ now \in TimePoints
    /\ remoteDoc = DocOne
    /\ cacheFile = AbsentFile
    /\ auditLog = <<>>
    /\ pc = "awaitRepoInfo"
    /\ skillName = <<>>
    /\ pendingCache = NullCache
    /\ fetchResult = NoFetch
    /\ validateResult = NoValidate
    /\ exitCode = -1
    /\ hist = NoHist
    /\ procs = NoProcs
    /\ approvedSkills = <<>>
    /\ OthersIdle

CalculateSafetyScore ==
    /\ pc = "awaitRepoInfo"
    /\ \E repoInfo \in Metadata(now) :
          LET safetyScore == calculateSafetyScore(repoInfo, now)
          IN  validateResult' =
                  [NoValidate EXCEPT !.status = "approved", !.approved = TRUE,
                       !.skill = [NoSkill EXCEPT !.repoInfo = repoInfo,
                                                 !.safetyScore = safetyScore],
                       !.safetyScore = safetyScore]
    /\ pc' = "prompt"
    /\ UNCHANGED <<otherPrograms, approvedSkills, procs, now, remoteDoc, cacheFile, auditLog, skillName, pendingCache,
                   fetchResult, exitCode, hist>>

ScoreNext == CalculateSafetyScore

ScoreSpec == ScoreInit /\ [][ScoreNext]_vars

(***************************************************************************)
(* The parser on its own: the request for the list is out (no cache file), *)
(* the README is any of Readmes                                            *)
(***************************************************************************)
ParseInit ==
    /\ now = 0
    /\ remoteDoc \in Readmes
    /\ cacheFile = AbsentFile
    /\ auditLog = <<>>
    /\ pc = "awaitList"
    /\ skillName = <<"a">>
    /\ pendingCache = NullCache
    /\ fetchResult = NoFetch
    /\ validateResult = NoValidate
    /\ exitCode = -1
    /\ hist = [NoHist EXCEPT !.checkAt = 0, !.listRequests = 1]
    /\ procs = NoProcs
    /\ approvedSkills = <<>>
    /\ OthersIdle

ParseNext == ListResponse

ParseSpec == ParseInit /\ [][ParseNext]_vars

(***************************************************************************)
(* Two validators on one cache file.  Each runs fetchApprovedSkills once;  *)
(* fs.writeFile is open(path, 'w'), which empties the file, and then a     *)
(* write at the start of the file: two steps, and the other validator may  *)
(* run between them.                                                       *)
(***************************************************************************)
\* the characters of a string (GH stands for 19 of them)
charCount(str) == Len(str) + 18 * Cardinality({i \in 1..Len(str) : str[i] = GH})

\* the length of JSON.stringify(cache, null, 2) but for the part every cache
\* shares: per entry its five strings and 108 characters of keys, quotes
\* and indentation
RECURSIVE jsonLength(_)
jsonLength(skills) ==
    IF skills = <<>> THEN 0
    ELSE LET e == Head(skills)
         IN  108 + charCount(e.name) + charCount(e.owner) + charCount(e.repo)
             + charCount(e.url) + charCount(e.parsedFrom) + jsonLength(Tail(skills))

\* the file after open(path, 'w')
EmptyFile == DamagedFile("garbage")

\* the file after data was written at its start: data, followed by what the
\* file held beyond the length of data, which is no JSON
overwrite(file, data) ==
    IF file.kind = "cache" /\ jsonLength(file.skills) > jsonLength(data.skills)
    THEN DamagedFile("garbage")
    ELSE data

RaceInit ==
    /\ now = 0
    /\ remoteDoc \in Docs
    /\ cacheFile = AbsentFile
    /\ auditLog = <<>>
    /\ pc = "idle"
    /\ skillName = <<>>
    /\ pendingCache = NullCache
    /\ fetchResult = NoFetch
    /\ validateResult = NoValidate
    /\ exitCode = -1
    /\ hist = NoHist
    /\ procs = [p \in Procs |-> [IdleProc EXCEPT !.pc = "checkCache"]]
    /\ approvedSkills = <<>>
    /\ OthersIdle

\* lines 24-32
RaceCheckCache(p) ==
    /\ procs[p].pc = "checkCache"
    /\ LET cache == loadCache(cacheFile)
       IN  procs' = IF IsFresh(cache, now)
                    THEN [procs EXCEPT ![p].pc = "done",
                                       ![p].result = Returned(cache, "cache")]
                    ELSE [procs EXCEPT ![p].pc = "awaitList"]
    /\ UNCHANGED <<otherPrograms, approvedSkills, now, remoteDoc, cacheFile, auditLog, pc, skillName, pendingCache,
                   fetchResult, validateResult, exitCode, hist>>

\* lines 32-40 and 219-222
RaceListResponse(p) ==
    /\ procs[p].pc = "awaitList"
    /\ \E res \in Responses :
          procs' = IF ListFetched(res)
                   THEN [procs EXCEPT
                            ![p].pc = "openCache",
                            ![p].pending = CacheObject(parseSkillsFromReadme(remoteDoc), now)]
                   ELSE [procs EXCEPT ![p].pc = "fallback"]
    /\ UNCHANGED <<otherPrograms, approvedSkills, now, remoteDoc, cacheFile, auditLog, pc, skillName, pendingCache,
                   fetchResult, validateResult, exitCode, hist>>

\* line 225, first half: the file is opened for writing and emptied
RaceOpenCache(p) ==
    /\ procs[p].pc = "openCache"
    /\ cacheFile' = EmptyFile
    /\ procs' = [procs EXCEPT ![p].pc = "writeCache"]
    /\ UNCHANGED <<otherPrograms, approvedSkills, now, remoteDoc, auditLog, pc, skillName, pendingCache,
                   fetchResult, validateResult, exitCode, hist>>

\* line 225, second half, and lines 42-43: the text is written and the list
\* is returned
RaceWriteCache(p) ==
    /\ procs[p].pc = "writeCache"
    /\ cacheFile' = overwrite(cacheFile, stringifyCache(procs[p].pending))
    /\ procs' = [procs EXCEPT
                    ![p].pc = "done",
                    ![p].result = Returned(procs[p].pending, "remote"),
                    ![p].wroteAt = 1 + Cardinality({q \in Procs : procs[q].wroteAt > 0})]
    /\ UNCHANGED <<otherPrograms, approvedSkills, now, remoteDoc, auditLog, pc, skillName, pendingCache,
                   fetchResult, validateResult, exitCode, hist>>

\* lines 45-56
RaceFallback(p) ==
    /\ procs[p].pc = "fallback"
    /\ procs' = [procs EXCEPT ![p].pc = "done",
                              ![p].result = FallbackResult(loadCache(cacheFile))]
    /\ UNCHANGED <<otherPrograms, approvedSkills, now, remoteDoc, cacheFile, auditLog, pc, skillName, pendingCache,
                   fetchResult, validateResult, exitCode, hist>>

RaceNext ==
    \/ \E p \in Procs : RaceCheckCache(p)
    \/ \E p \in Procs : RaceListResponse(p)
    \/ \E p \in Procs : RaceOpenCache(p)
    \/ \E p \in Procs : RaceWriteCache(p)
    \/ \E p \in Procs : RaceFallback(p)
    \/ Tick
    \/ RemoteChange

RaceSpec == RaceInit /\ [][RaceNext]_vars

(***************************************************************************)
(* Properties                                                              *)
(***************************************************************************)

\* C1: when fetchApprovedSkills reads a cache written at T at a time T', it
\* returns the cached entries and sends no request for the list if
\* T' - T < cacheTimeout, and it sends the request if T' - T >= cacheTimeout.
C1_CacheFreshnessBoundary ==
    /\ [][(pc = "checkCache" /\ pc' # "checkCache" /\ cacheFile.kind = "cache") =>
            IF now - cacheFile.timestamp < cacheTimeout
            THEN /\ fetchResult' = [status |-> "list", list |-> cacheFile.skills,
                                    from |-> "cache"]
                 /\ hist'.listRequests = 0
                 /\ pc' # "awaitList"
            ELSE /\ hist'.listRequests = 1
                 /\ pc' = "awaitList"]_vars
    /\ [](fetchResult.from = "cache" => hist.listRequests = 0)

\* a cache one tick short of its expiry was read and returned
C1_Witness ==
    /\ fetchResult.from = "cache"
    /\ fetchResult.status = "list"
    /\ cacheFile.kind = "cache"
    /\ hist.checkAt - cacheFile.timestamp = cacheTimeout - 1
    /\ hist.listRequests = 0

NoEntryMatches(list, n) ==
    \A i \in 1..Len(list) :
        /\ list[i].name # n
        /\ toLowerCase(list[i].repo) # n
        /\ ~includes(toLowerCase(list[i].repo), n)

LookupFindsNothing ==
    /\ pc = "lookup"
    /\ pc' # "lookup"
    /\ fetchResult.status = "list"
    /\ NoEntryMatches(fetchResult.list, normalize(skillName))

ReturnsNotFound ==
    /\ validateResult'.status = "rejected"
    /\ validateResult'.approved = FALSE
    /\ validateResult'.skill = NoSkill
    /\ includes(validateResult'.reason, <<"Not", "found">>)

RejectedLine ==
    [timestamp |-> now, skillName |-> skillName, result |-> "REJECTED",
     reason |-> NotFoundLogged, user |-> FALSE]

YesAnswers == {<<"y">>, <<"Y", "e", "s", " ">>}

Approvals == {i \in 1..Len(auditLog) : auditLog[i].result = "APPROVED"}

\* C5 as claimed: the CLI exits 0 and records APPROVED only when the skill is
\* on the approved list, it passed the automated safety check (its safety
\* level is not "Low") and the user confirmed.
C5_AllRequirementsMet ==
    (exitCode = 0 \/ Approvals # {}) =>
        /\ validateResult.status = "approved"
        /\ hist.matched # 0
        /\ safetyLevel(validateResult.safetyScore) # "Low"
        /\ hist.answered
        /\ hist.answer \in YesAnswers

LeastOf(S) == IF S = {} THEN 0 ELSE CHOOSE i \in S : \A j \in S : i <= j

NameIs(list, n) == {i \in 1..Len(list) : list[i].name = n}
RepoIs(list, n) == {i \in 1..Len(list) : toLowerCase(list[i].repo) = n}
RepoHas(list, n) == {i \in 1..Len(list) : includes(toLowerCase(list[i].repo), n)}

\* the lookup is over and validateSkill worked on a list
LookedUp == pc \in {"awaitRepoInfo", "prompt", "exited"} /\ fetchResult.status = "list"

\* C7 as claimed: the matched entry is the first entry whose name equals the
\* normalized name; only if there is none, the first whose repo equals it
\* case-insensitively; only if there is none, the first whose repo contains it.
C7_Original ==
    LookedUp =>
        LET list == fetchResult.list
            n == normalize(skillName)
        IN  hist.matched =
                IF NameIs(list, n) # {} THEN LeastOf(NameIs(list, n))
                ELSE IF RepoIs(list, n) # {} THEN LeastOf(RepoIs(list, n))
                ELSE LeastOf(RepoHas(list, n))

\* C7 as amended: the matched entry is the first entry, in document order,
\* whose name equals the normalized name or whose repo equals or contains it
\* (case-insensitively); the three tests are alternatives within one entry,
\* not passes over the list.
C7_FirstMatchInDocumentOrder ==
    LookedUp =>
        LET list == fetchResult.list
            n == normalize(skillName)
        IN  /\ hist.matched =
                  LeastOf(NameIs(list, n) \cup RepoIs(list, n) \cup RepoHas(list, n))
            /\ validateResult.status = "approved" =>
                  /\ validateResult.skill.name = list[hist.matched].name
                  /\ validateResult.skill.owner = list[hist.matched].owner
                  /\ validateResult.skill.repo = list[hist.matched].repo
                  /\ validateResult.skill.url = list[hist.matched].url

\* the first entry matched by its repo although the second has the name
C7_Witness ==
    /\ LookedUp
    /\ validateResult.status = "approved"
    /\ hist.matched = 1
    /\ NameIs(fetchResult.list, normalize(skillName)) = {2}
    /\ validateResult.skill.name # normalize(skillName)

\* C8: when fetchApprovedSkills has fetched the list and the cache write has
\* succeeded, the cache file holds exactly the entries the call returns,
\* stamped with the time of the fetch, whatever the file held before.
C8_FetchPersisted ==
    [][(pc = "saveCache" /\ pc' # "saveCache" /\ hist'.writeOutcome = "written") =>
          /\ fetchResult'.status = "list"
          /\ fetchResult'.from = "remote"
          /\ cacheFile'.kind = "cache"
          /\ cacheFile'.skills = fetchResult'.list
          /\ cacheFile'.timestamp = hist.fetchedAt
          /\ hist.fetchedAt <= now]_vars

\* a list fetched no earlier than cacheTimeout was written and returned
C8_Witness ==
    /\ pc = "lookup"
    /\ hist.writeOutcome = "written"
    /\ fetchResult.from = "remote"
    /\ fetchResult.list # <<>>
    /\ cacheFile.kind = "cache"
    /\ cacheFile.skills = fetchResult.list
    /\ cacheFile.timestamp = hist.fetchedAt
    /\ hist.fetchedAt >= cacheTimeout

\* C9 as claimed: a cache file that is unreadable or corrupt is treated like
\* an absent one: the first read sends the request for the list, and after a
\* failed request the call throws the list-unavailable error, so validateSkill
\* fails with that error.
C9_CorruptAsAbsent ==
    [][/\ (pc = "checkCache" /\ pc' # "checkCache" /\ cacheFile.kind \in CorruptKinds) =>
             pc' = "awaitList"
       /\ (pc = "fallback" /\ pc' # "fallback" /\ cacheFile.kind \in CorruptKinds) =>
             /\ fetchResult' = Threw
             /\ hist'.error = ListUnavailable
             /\ pc' = "valCatch"
       /\ (pc = "valCatch" /\ pc' # "valCatch") =>
             /\ validateResult'.status = "threw"
             /\ validateResult'.error = ListUnavailable]_vars

MatchedEntry == fetchResult.list[hist.matched]

ListFailurePropagated ==
    /\ fetchResult.status = "threw"
    /\ pc = "exited"

ErrorLogged(i) ==
    /\ auditLog[i].result = "ERROR"
    /\ auditLog[i].skillName = skillName
    /\ auditLog[i].reason = ListUnavailable
    /\ auditLog[i].user = FALSE

RunEnded == pc = "exited" /\ skillName # <<>>

\* the outcome that agrees with the run's result
RunOutcome ==
    CASE validateResult.status = "rejected" -> "REJECTED"
      [] validateResult.status = "threw" -> "ERROR"
      [] validateResult.status = "approved" /\ exitCode = 0 -> "APPROVED"
      [] OTHER -> "DECLINED"

OneRecord ==
    /\ Len(auditLog) = 1
    /\ auditLog[1].skillName = skillName
    /\ auditLog[1].result = RunOutcome
    /\ auditLog[1].user = (RunOutcome = "APPROVED")

Scored == pc = "prompt"

ScoredInfo == validateResult.skill.repoInfo

\* C14: for every repository metadata value, calculateSafetyScore returns
\* an integer from 0 to 10.
C14_ScoreRange ==
    Scored =>
        /\ validateResult.safetyScore \in 0..10
        /\ validateResult.skill.safetyScore = validateResult.safetyScore

\* a metadata value has got the score 10
C14_Witness ==
    /\ Scored
    /\ ScoredInfo.stargazers_count = 100
    /\ validateResult.safetyScore = 10

\* the table of bucket points
StarPoints(n) == IF n >= 100 THEN 3 ELSE IF n >= 20 THEN 2 ELSE IF n >= 5 THEN 1 ELSE 0
ForkPoints(n) == IF n >= 10 THEN 2 ELSE IF n >= 2 THEN 1 ELSE 0
RecencyPoints(age) ==
    IF age <= 30 * DayMs THEN 3
    ELSE IF age <= 90 * DayMs THEN 2
    ELSE IF age <= 180 * DayMs THEN 1 ELSE 0

BucketSum(r, t) ==
    StarPoints(r.stargazers_count)
    + (IF r.hasForks THEN ForkPoints(r.forks_count) ELSE 0)
    + (IF r.hasUpdated THEN RecencyPoints(t - r.updated_at) ELSE 0)
    + (IF r.hasDescription /\ r.descriptionLength > 10 THEN 1 ELSE 0)
    + (IF r.license THEN 1 ELSE 0)

\* C15 as claimed: for every metadata value that has a star count, the score
\* is the sum of the bucket points of the table: stars + forks + days since
\* the update + 1 for a description longer than 10 + 1 for a license.
C15_BucketSum ==
    (Scored /\ ScoredInfo.hasStars) =>
        validateResult.safetyScore = BucketSum(ScoredInfo, now)

\* C16: a metadata value without a stargazers_count field scores 0, whatever
\* its forks, update time, description and license are.
C16_NoStarsScoresZero ==
    (Scored /\ ~ScoredInfo.hasStars) => validateResult.safetyScore = 0

\* 25 forks, a fresh update, a long description and a license, but no star
\* count: the score is 0
C16_Witness ==
    /\ Scored
    /\ ScoredInfo.present
    /\ ~ScoredInfo.hasStars
    /\ ScoredInfo.forks_count = 25
    /\ ScoredInfo.hasUpdated
    /\ now - ScoredInfo.updated_at = 10 * DayMs
    /\ ScoredInfo.descriptionLength = 56
    /\ ScoredInfo.license
    /\ validateResult.safetyScore = 0

\* the two repositories of the examples, as of time t
HighAt(t) == [HighInfo EXCEPT !.updated_at = t - 10 * DayMs]
LowAt(t) == [LowInfo EXCEPT !.updated_at = t - 200 * DayMs]

\* C17: with all other fields fixed, more stars, more forks or a later update
\* never lower the score; the repository with 150 stars, 25 forks, updated 10
\* days ago, a long description and a license scores at least 8, the one
\* with 1 star, 0 forks, updated 200 days ago, description "Test" and no
\* license at most 3.
C17_Monotonic ==
    Scored =>
        LET r == ScoredInfo
            score == validateResult.safetyScore
        IN  /\ r.hasStars =>
                  \A n \in StarCounts : n >= r.stargazers_count =>
                      calculateSafetyScore([r EXCEPT !.stargazers_count = n], now) >= score
            /\ r.hasForks =>
                  \A n \in ForkCounts : n >= r.forks_count =>
                      calculateSafetyScore([r EXCEPT !.forks_count = n], now) >= score
            /\ r.hasUpdated =>
                  \A a \in Ages : now - a >= r.updated_at =>
                      calculateSafetyScore([r EXCEPT !.updated_at = now - a], now) >= score
            /\ r = HighAt(now) => score >= 8
            /\ r = LowAt(now) => score <= 3

\* the low example has been scored, and one more star count away sits a
\* value that scores more
C17_Witness ==
    /\ Scored
    /\ ScoredInfo = LowAt(now)
    /\ validateResult.safetyScore <= 3
    /\ calculateSafetyScore([ScoredInfo EXCEPT !.stargazers_count = 150], now)
          > validateResult.safetyScore

\* parseSkillsFromReadme has been applied to remoteDoc: its result is the
\* list saveCache is about to write
Parsed == pc = "saveCache"

IsLinkLine(x) == \E l \in Links : LinkLine(l) = x
LinkOf(x) == CHOOSE l \in Links : LinkLine(l) = x

\* the indices of the link lines of the README, and the k-th of them
LinkIndices == {i \in 1..Len(remoteDoc) : IsLinkLine(remoteDoc[i])}
KthLink(k) ==
    CHOOSE i \in LinkIndices : Cardinality({j \in LinkIndices : j <= i}) = k

\* C18: parseSkillsFromReadme yields, in document order and without
\* de-duplication, exactly one entry for each line with a link
\* [label](https://github.com/owner/repo), and none for the other lines; the
\* entry's name is the label lowercased and trimmed, its owner the first path
\* segment, its repo the rest of the path without a trailing ".git".
C18_OneEntryPerLinkLine ==
    Parsed =>
        LET skills == pendingCache.skills
        IN  /\ Len(skills) = Cardinality(LinkIndices)
            /\ \A k \in 1..Len(skills) :
                  LET l == LinkOf(remoteDoc[KthLink(k)])
                  IN  /\ skills[k].name = l.label.name
                      /\ skills[k].owner = l.owner
                      /\ skills[k].repo = l.repo.repo

\* a README of twice the same link line, with a ".git" and a second link on
\* the line, has given two equal entries
C18_Witness ==
    /\ Parsed
    /\ Len(remoteDoc) = 2
    /\ remoteDoc[1] = remoteDoc[2]
    /\ IsLinkLine(remoteDoc[1])
    /\ LinkOf(remoteDoc[1]).repo.text = <<"X", "a", ".", "g", "i", "t">>
    /\ LinkOf(remoteDoc[1]).suffix # <<>>
    /\ Len(pendingCache.skills) = 2
    /\ pendingCache.skills[1] = pendingCache.skills[2]
    /\ pendingCache.skills[1].repo = <<"X", "a">>

\* C19 as claimed: every entry's url is rebuilt from its own fields:
\* "https://github.com/" + owner + "/" + repo, repo being the entry's repo
\* field, without the trailing ".git".
C19_Original ==
    Parsed =>
        \A k \in 1..Len(pendingCache.skills) :
            LET e == pendingCache.skills[k]
            IN  e.url = <<GH>> \o e.owner \o <<"/">> \o e.repo

\* C19 as amended: every entry's url is "https://github.com/" + owner + "/" +
\* the repo segment as the link has it: a trailing ".git" is stripped from the
\* entry's repo field but kept in its url.
C19_UrlKeepsRepoSegment ==
    Parsed =>
        \A k \in 1..Len(pendingCache.skills) :
            LET e == pendingCache.skills[k]
                l == LinkOf(remoteDoc[KthLink(k)])
            IN  /\ e.url = <<GH>> \o e.owner \o <<"/">> \o l.repo.text
                /\ e.url = <<GH>> \o e.owner \o <<"/">> \o e.repo
                      <=> l.repo.text = l.repo.repo

\* an entry of a link with ".git": its url ends in ".git", its repo does not
C19_Witness ==
    /\ Parsed
    /\ Len(pendingCache.skills) = 1
    /\ pendingCache.skills[1].repo = <<"X", "a">>
    /\ pendingCache.skills[1].url = <<GH, "o", "/", "X", "a", ".", "g", "i", "t">>

\* both validators have finished
BothDone == \A p \in Procs : procs[p].pc = "done"

Writers == {p \in Procs : procs[p].wroteAt > 0}

\* the validator whose write of the cache ended last
LastWriter == CHOOSE p \in Writers : \A q \in Writers : procs[q].wroteAt <= procs[p].wroteAt

\* after both have finished the cache file holds the whole snapshot of the
\* last writer
LastWriterWins ==
    (BothDone /\ Writers # {}) =>
        cacheFile = stringifyCache(procs[LastWriter].pending)

\* a validator that returns a list returns one whole snapshot (the entries
\* of one README), otherwise it has thrown
NoMixedList ==
    \A p \in Procs : procs[p].pc = "done" =>
        \/ procs[p].result.status = "threw"
        \/ /\ procs[p].result.status = "list"
           /\ \E d \in Docs : procs[p].result.list = parseSkillsFromReadme(d)

\* C20 as claimed: for every interleaving of two validators on one cache
\* file, after both have finished the file holds the whole snapshot of the
\* last writer, and no validator returns a mixture or a part of snapshots.
C20_LastWriterWins == LastWriterWins /\ NoMixedList

\* C24: a failed fetch leaves the cache file alone: the step on which the
\* list request fails and the step on which the catch block returns the stale
\* list or throws both leave the content and the timestamp of the cache file
\* as they were.
C24_FailedFetchKeepsCache ==
    [][(\/ (pc = "awaitList" /\ pc' = "fallback")
        \/ (pc = "fallback" /\ pc' # "fallback")) => cacheFile' = cacheFile]_vars

\* the catch block returned an expired list and the expired file is still there
C24_Witness ==
    /\ pc = "lookup"
    /\ hist.listOutcome = "failed"
    /\ fetchResult.from = "stale"
    /\ cacheFile.kind = "cache"
    /\ cacheFile.timestamp = 0
    /\ now >= cacheTimeout

\* the positions of validateSkill in which fetchApprovedSkills has not returned
BeforeLookupDone == {"checkCache", "awaitList", "saveCache", "fallback", "lookup"}

\* C25: there is no retry: a run issues at most one request for the list and
\* at most one request for the metadata, and the metadata request is issued
\* only after fetchApprovedSkills has returned a list.
C25_NoRetry ==
    /\ hist.listRequests <= 1
    /\ hist.metaRequests <= 1
    /\ (pc \in BeforeLookupDone => hist.metaRequests = 0)
    /\ (hist.metaRequests = 1 => fetchResult.status = "list")

\* a run that asked for the list once, then for the metadata once
C25_Witness ==
    /\ pc = "prompt"
    /\ hist.listRequests = 1
    /\ hist.metaRequests = 1
    /\ hist.listOutcome = "ok"

\* the fields parseSkillsFromReadme gave an entry
Identity(e) ==
    [name |-> e.name, owner |-> e.owner, repo |-> e.repo, url |-> e.url,
     parsedFrom |-> e.parsedFrom]

\* C26 as stated: no entry of the list validateSkill obtained is changed or
\* given a field: the array is what fetchApprovedSkills returned.
C26_Original ==
    approvedSkills # <<>> => approvedSkills = fetchResult.list

\* C26: validateSkill writes repoInfo and safetyScore into the matched entry
\* of the list it obtained, and that entry is the one it returns; the fields
\* given by the parser, the other entries, and the entries of the cache file
\* are left as they were.
C26_OnlyMatchedEntryAnnotated ==
    /\ approvedSkills # <<>> =>
          /\ Len(approvedSkills) = Len(fetchResult.list)
          /\ \A i \in 1..Len(approvedSkills) :
                /\ Identity(approvedSkills[i]) = Identity(fetchResult.list[i])
                /\ (i # hist.matched \/ validateResult.status # "approved") =>
                       approvedSkills[i] = fetchResult.list[i]
          /\ validateResult.status = "approved" =>
                /\ validateResult.skill = approvedSkills[hist.matched]
                /\ approvedSkills[hist.matched].safetyScore = validateResult.safetyScore
                /\ approvedSkills[hist.matched].safetyScore # NoScore
    /\ cacheFile.kind = "cache" =>
          \A i \in 1..Len(cacheFile.skills) :
              /\ cacheFile.skills[i].repoInfo = NoRepoInfo
              /\ cacheFile.skills[i].safetyScore = NoScore

\* the second of two entries was approved and now carries a score
C26_Witness ==
    /\ pc = "prompt"
    /\ Len(approvedSkills) = 2
    /\ hist.matched = 2
    /\ approvedSkills[2].safetyScore # NoScore
    /\ approvedSkills[1] = fetchResult.list[1]
    /\ approvedSkills # fetchResult.list

\* C29: a name that is empty after normalization is not approved, whatever
\* the approved list holds.
C29_EmptyNameNeverApproved ==
    (normalize(skillName) = <<>> /\ validateResult.status # "none") =>
        ~validateResult.approved

(***************************************************************************)
(* version-checker.js (src/unnamed/part_002): the admin version check      *)
(***************************************************************************)
\* the variables of the validator, the clock apart
validatorVars ==
    <<remoteDoc, cacheFile, auditLog, pc, skillName, pendingCache, fetchResult,
      validateResult, exitCode, hist, procs, approvedSkills>>

ValidatorIdle ==
    /\ remoteDoc = DocOne
    /\ cacheFile = AbsentFile
    /\ auditLog = <<>>
    /\ pc = "idle"
    /\ skillName = <<>>
    /\ pendingCache = NullCache
    /\ fetchResult = NoFetch
    /\ validateResult = NoValidate
    /\ exitCode = -1
    /\ hist = NoHist
    /\ procs = NoProcs
    /\ approvedSkills = <<>>

\* CONFIG.MIN_COMMITS_FOR_ALERT of version-checker.js
VC_MIN_COMMITS_FOR_ALERT == 100

\* (1000 * 60 * 60) milliseconds, in ticks of the clock
TicksPerHour == (1000 * 60 * 60) \div MsPerTick

\* the days the clock runs over
MaxDays == 2

\* the clock stands at 0, or one tick before or at a multiple of 24 hours
AlertTimePoints ==
    {0} \cup {k * 24 * TicksPerHour + d : k \in 1..MaxDays, d \in {-1, 0}}

\* git rev-list --count current..upstream/main
BehindCounts == {0, 99, 100, 150}

\* the commits upstream/main has pointed to, in order
MaxUpstream == 2
UpstreamCommits == 1..MaxUpstream

\* generateReport: needsAlert is difference.isSignificant
generateReport(upstream, commitsBehind, t) ==
    [timestamp |-> t, commitsBehind |-> commitsBehind, commit |-> upstream,
     needsAlert |-> commitsBehind >= VC_MIN_COMMITS_FOR_ALERT]

\* the cacheData of cacheReport, as written
cacheData(report) ==
    [kind |-> "cache", commitsBehind |-> report.commitsBehind,
     upstreamCommit |-> report.commit,
     hasLastAlert |-> report.needsAlert,
     lastAlert |-> IF report.needsAlert THEN report.timestamp ELSE 0]

\* shouldSendAlert (lines 275-309), reading the cache file as it is now
shouldSendAlert(report, file, t) ==
    IF ~report.needsAlert THEN FALSE
    ELSE IF file.kind = "absent" THEN TRUE
    ELSE IF file.kind = "corrupt" THEN TRUE
    ELSE IF file.hasLastAlert /\ file.upstreamCommit = report.commit THEN FALSE
    ELSE IF file.hasLastAlert /\ t - file.lastAlert < 24 * TicksPerHour THEN FALSE
    ELSE TRUE

\* checkVersion up to generateReport (lines 314-338): the versions are read;
\* a git command that fails ends the run with an error
VcStart ==
    /\ vc.pc = "idle"
    /\ \/ \E u \in UpstreamCommits, n \in BehindCounts :
             /\ u >= vc.upstream
             /\ vc' = [vc EXCEPT !.pc = "cacheReport", !.upstream = u,
                                 !.report = generateReport(u, n, now),
                                 !.decided = "none", !.wrote = "none",
                                 !.sentBefore = vc.sent]
       \/ vc' = [vc EXCEPT !.pc = "done", !.report = NoReport,
                           !.decided = "none", !.wrote = "none",
                           !.sentBefore = vc.sent]
    /\ UNCHANGED <<validatorVars, now, uc, su, bh>>

\* cacheReport (lines 257-270), called before shouldSendAlert (line 349); a
\* failed write is logged and the file stays as it was
VcCacheReport ==
    /\ vc.pc = "cacheReport"
    /\ \E w \in {"written", "failed"} :
          vc' = [vc EXCEPT !.pc = "shouldSendAlert", !.wrote = w,
                           !.file = IF w = "written" THEN cacheData(vc.report) ELSE @]
    /\ UNCHANGED <<validatorVars, now, uc, su, bh>>

\* line 352: if (shouldSendAlert(report))
VcShouldSendAlert ==
    /\ vc.pc = "shouldSendAlert"
    /\ LET send == shouldSendAlert(vc.report, vc.file, now)
       IN  vc' = [vc EXCEPT !.pc = IF send THEN "send" ELSE "done",
                            !.decided = IF send THEN "send" ELSE "skip"]
    /\ UNCHANGED <<validatorVars, now, uc, su, bh>>

\* lines 356-359: sendVersionAlert resolves or rejects
VcSend ==
    /\ vc.pc = "send"
    /\ \/ vc' = [vc EXCEPT !.pc = "updateCache", !.sent = @ \cup {vc.report.commit},
                           !.lastSent = now]
       \/ vc' = [vc EXCEPT !.pc = "done"]
    /\ UNCHANGED <<validatorVars, now, uc, su, bh>>

\* lines 362-365: the cache is read back and lastAlert is set; a file that
\* cannot be read or written throws into the catch of line 367
VcUpdateCache ==
    /\ vc.pc = "updateCache"
    /\ \E w \in {"written", "failed"} :
          vc' = [vc EXCEPT !.pc = "done",
                           !.file = IF w = "written" /\ @.kind = "cache"
                                    THEN [@ EXCEPT !.hasLastAlert = TRUE,
                                                   !.lastAlert = vc.report.timestamp]
                                    ELSE @]
    /\ UNCHANGED <<validatorVars, now, uc, su, bh>>

\* the run ends; cron starts the next one later
VcEnd ==
    /\ vc.pc = "done"
    /\ vc' = [vc EXCEPT !.pc = "idle"]
    /\ UNCHANGED <<validatorVars, now, uc, su, bh>>

\* time passes between two runs
VcTick ==
    /\ vc.pc = "idle"
    /\ \E t \in AlertTimePoints : t > now /\ now' = t
    /\ UNCHANGED <<validatorVars, vc, uc, su, bh>>

VersionInit ==
    /\ now = 0
    /\ ValidatorIdle
    /\ vc \in {NoVc, [NoVc EXCEPT !.file.kind = "corrupt"]}
    /\ uc = NoUc
    /\ su = NoSu
    /\ bh = NoBh

VersionNext ==
    \/ VcStart
    \/ VcCacheReport
    \/ VcShouldSendAlert
    \/ VcSend
    \/ VcUpdateCache
    \/ VcEnd
    \/ VcTick

VersionSpec == VersionInit /\ [][VersionNext]_vars

\* no version alert was delivered in the last 24 hours
NoRecentVersionAlert == vc.lastSent = -1 \/ now - vc.lastSent >= 24 * TicksPerHour

\* C21: when a run finds the workspace at least MIN_COMMITS_FOR_ALERT commits
\* behind upstream and no alert was delivered before for the upstream commit
\* (nor for any commit in the last 24 hours), checkVersion decides to send the
\* Telegram version alert.
C21_AlertAtThreshold ==
    (/\ vc.decided # "none"
     /\ vc.report.commitsBehind >= VC_MIN_COMMITS_FOR_ALERT
     /\ vc.report.commit \notin vc.sentBefore
     /\ NoRecentVersionAlert) => vc.decided = "send"

(***************************************************************************)
(* user-update-checker.js (src/unnamed/part_001)                           *)
(***************************************************************************)
\* CONFIG.MIN_COMMITS_FOR_ALERT and CONFIG.ALERT_COOLDOWN_HOURS
UC_MIN_COMMITS_FOR_ALERT == 1
ALERT_COOLDOWN_HOURS == 24

\* a commit message, by the patterns of analyzeCommitImportance it matches:
\* the four of `patterns` and the OpenClaw update merge
CommitKinds ==
    [security : BOOLEAN, features : BOOLEAN, fixes : BOOLEAN, breaking : BOOLEAN,
     merge : BOOLEAN]

PlainCommit ==
    [security |-> FALSE, features |-> FALSE, fixes |-> FALSE, breaking |-> FALSE,
     merge |-> FALSE]

\* the inner loop of lines 155-161: the first pattern that matches, in the
\* order security, features, fixes, breaking, takes the commit
category(commit) ==
    IF commit.security THEN "security"
    ELSE IF commit.features THEN "features"
    ELSE IF commit.fixes THEN "fixes"
    ELSE IF commit.breaking THEN "breaking"
    ELSE "other"

\* analyzeCommitImportance over the kinds of message in the log
analyzeCommitImportance(commits) ==
    [includesOpenClawUpdate |-> \E c \in commits : c.merge,
     security |-> {c \in commits : category(c) = "security"},
     features |-> {c \in commits : category(c) = "features"},
     fixes |-> {c \in commits : category(c) = "fixes"},
     breaking |-> {c \in commits : category(c) = "breaking"},
     other |-> {c \in commits : category(c) = "other"}]

\* determineUrgency as the table of SKILL.md has it, without the rule for 20
determineUrgencyDocumented(commitsBehind, analysis) ==
    IF analysis.security # {} THEN "critical"
    ELSE IF analysis.includesOpenClawUpdate THEN "high"
    ELSE IF analysis.breaking # {} THEN "high"
    ELSE IF commitsBehind >= 5 THEN "medium"
    ELSE "low"

\* determineUrgency (lines 170-177)
determineUrgency(commitsBehind, analysis) ==
    IF analysis.security # {} THEN "critical"
    ELSE IF analysis.includesOpenClawUpdate THEN "high"
    ELSE IF analysis.breaking # {} THEN "high"
    ELSE IF commitsBehind >= 20 THEN "high"
    ELSE IF commitsBehind >= 5 THEN "medium"
    ELSE "low"

\* readCache: a missing or corrupt file reads as {}
readCache(file) == IF file.kind = "cache" THEN file ELSE NoUserCache

\* shouldAlert (lines 282-301)
shouldAlert(originCommit, file, t) ==
    LET cache == readCache(file)
    IN  IF ~cache.hasLastAlert THEN TRUE
        ELSE IF cache.lastAlertOriginCommit # originCommit THEN TRUE
        ELSE IF t - cache.lastAlertTime < ALERT_COOLDOWN_HOURS * TicksPerHour THEN FALSE
        ELSE TRUE

\* the runs of the checker that are followed
MaxRuns == 3

\* git rev-list --count HEAD..origin/main, and the commits origin/main has
\* pointed to, in order
UserBehindCounts == {0, 1}
MaxOrigin == 2
OriginCommits == 1..MaxOrigin

\* the logs of a run: one plain commit, or one that touches security
UserLogs == {{PlainCommit}, {[PlainCommit EXCEPT !.security = TRUE]}}

\* steps 1-3 (lines 318-345): the repository is read; a git command that
\* fails ends the run with an error
UcStart ==
    /\ uc.pc = "idle"
    /\ uc.runs < MaxRuns
    /\ \/ \E c \in OriginCommits, n \in UserBehindCounts, log \in UserLogs :
             /\ c >= uc.origin
             /\ uc' = [uc EXCEPT !.pc = IF n = 0 THEN "writeCurrent" ELSE "analyze",
                                 !.origin = c, !.runs = @ + 1,
                                 !.report = [commitsBehind |-> n, commit |-> c,
                                             commits |-> IF n = 0 THEN {} ELSE log,
                                             urgency |-> "none"],
                                 !.sendOutcome = "none", !.marked = FALSE,
                                 !.atStart = uc.file]
       \/ uc' = [uc EXCEPT !.pc = "done", !.runs = @ + 1, !.report = NoUserReport,
                           !.sendOutcome = "none", !.marked = FALSE,
                           !.atStart = uc.file]
    /\ UNCHANGED <<validatorVars, now, vc, su, bh>>

\* lines 336-345: up to date; the cache is written anew, without the fields
\* of the last alert
UcWriteCurrent ==
    /\ uc.pc = "writeCurrent"
    /\ \E w \in {"written", "failed"} :
          uc' = [uc EXCEPT !.pc = "done",
                           !.writeFailed = @ \/ w = "failed",
                           !.file = IF w = "written"
                                    THEN [NoUserCache EXCEPT !.kind = "cache",
                                             !.status = "current",
                                             !.originCommit = uc.report.commit]
                                    ELSE @]
    /\ UNCHANGED <<validatorVars, now, vc, su, bh>>

\* steps 4-6 (lines 347-369): the log is analysed and the urgency determined
UcAnalyze ==
    /\ uc.pc = "analyze"
    /\ LET analysis == analyzeCommitImportance(uc.report.commits)
           urgency == determineUrgency(uc.report.commitsBehind, analysis)
       IN  uc' = [uc EXCEPT !.pc = "shouldAlert", !.report.urgency = urgency]
    /\ UNCHANGED <<validatorVars, now, vc, su, bh>>

\* step 7 (line 372)
UcShouldAlert ==
    /\ uc.pc = "shouldAlert"
    /\ LET alert == /\ uc.report.commitsBehind >= UC_MIN_COMMITS_FOR_ALERT
                    /\ shouldAlert(uc.report.commit, uc.file, now)
       IN  uc' = [uc EXCEPT !.pc = IF alert THEN "send" ELSE "writeCache"]
    /\ UNCHANGED <<validatorVars, now, vc, su, bh>>

\* lines 375-380 and sendViaTelegram: without token or chat id the promise
\* resolves with null; otherwise Telegram accepts the message or the promise
\* rejects
UcSend ==
    /\ uc.pc = "send"
    /\ IF ~uc.configured
       THEN uc' = [uc EXCEPT !.pc = "markAlerted", !.sendOutcome = "skipped"]
       ELSE \/ uc' = [uc EXCEPT !.pc = "markAlerted", !.sendOutcome = "delivered",
                                !.deliveries = Append(@, [commit |-> uc.report.commit,
                                                          at |-> now])]
            \/ uc' = [uc EXCEPT !.pc = "writeCache", !.sendOutcome = "failed"]
    /\ UNCHANGED <<validatorVars, now, vc, su, bh>>

\* markAlerted (lines 303-308), called when the await of line 380 returned
UcMarkAlerted ==
    /\ uc.pc = "markAlerted"
    /\ \E w \in {"written", "failed"} :
          uc' = [uc EXCEPT !.pc = "writeCache",
                           !.marked = (w = "written"),
                           !.writeFailed = @ \/ w = "failed",
                           !.file = IF w = "written"
                                    THEN [readCache(@) EXCEPT !.kind = "cache",
                                             !.hasLastAlert = TRUE,
                                             !.lastAlertOriginCommit = uc.report.commit,
                                             !.lastAlertTime = now]
                                    ELSE @]
    /\ UNCHANGED <<validatorVars, now, vc, su, bh>>

\* lines 389-397: the cache is written with the fields of the last alert as
\* readCache gives them
UcWriteCache ==
    /\ uc.pc = "writeCache"
    /\ \E w \in {"written", "failed"} :
          uc' = [uc EXCEPT !.pc = "done",
                           !.writeFailed = @ \/ w = "failed",
                           !.file = IF w = "written"
                                    THEN [readCache(@) EXCEPT !.kind = "cache",
                                             !.status = "outdated",
                                             !.originCommit = uc.report.commit]
                                    ELSE @]
    /\ UNCHANGED <<validatorVars, now, vc, su, bh>>

\* the run ends; cron starts the next one later
UcEnd ==
    /\ uc.pc = "done"
    /\ uc' = [uc EXCEPT !.pc = "idle"]
    /\ UNCHANGED <<validatorVars, now, vc, su, bh>>

\* time passes between two runs
UcTick ==
    /\ uc.pc = "idle"
    /\ \E t \in AlertTimePoints : t > now /\ now' = t
    /\ UNCHANGED <<validatorVars, vc, uc, su, bh>>

UserInit ==
    /\ now = 0
    /\ ValidatorIdle
    /\ vc = NoVc
    /\ \E configured \in BOOLEAN, kind \in {"absent", "corrupt"} :
          uc = [NoUc EXCEPT !.configured = configured, !.file.kind = kind,
                            !.atStart.kind = kind]
    /\ su = NoSu
    /\ bh = NoBh

UserNext ==
    \/ UcStart
    \/ UcWriteCurrent
    \/ UcAnalyze
    \/ UcShouldAlert
    \/ UcSend
    \/ UcMarkAlerted
    \/ UcWriteCache
    \/ UcEnd
    \/ UcTick

UserSpec == UserInit /\ [][UserNext]_vars

\* C22: as long as every write of the cache file succeeds, two notifications
\* delivered for the same origin commit are at least ALERT_COOLDOWN_HOURS
\* apart.
C22_NoRealertWithinCooldown ==
    ~uc.writeFailed =>
        \A i, j \in 1..Len(uc.deliveries) :
            (i < j /\ uc.deliveries[i].commit = uc.deliveries[j].commit) =>
                uc.deliveries[j].at - uc.deliveries[i].at
                    >= ALERT_COOLDOWN_HOURS * TicksPerHour

\* the dedup state of a cache file: the commit and the time of the last alert
DedupState(file) ==
    LET cache == readCache(file)
    IN  IF cache.hasLastAlert
        THEN <<cache.lastAlertOriginCommit, cache.lastAlertTime>>
        ELSE <<>>

\* C30: a run writes the alert fields only when its notification was
\* delivered, and a run whose send failed or was skipped leaves the dedup
\* state of the cache file as it found it.
C30_MarkedOnlyOnDelivery ==
    /\ uc.marked => uc.sendOutcome = "delivered"
    /\ (uc.pc = "done" /\ uc.sendOutcome \in {"failed", "skipped"}) =>
           DedupState(uc.file) = DedupState(uc.atStart)

\* determineUrgency on its own: the counts around the thresholds, and logs of
\* one or two kinds of message
UrgencyCounts == {1, 4, 5, 19, 20, 21}
UrgencyLogs == {{a, b} : a, b \in CommitKinds}

UrgencyInit ==
    /\ now = 0
    /\ ValidatorIdle
    /\ vc = NoVc
    /\ \E n \in UrgencyCounts, log \in UrgencyLogs :
          uc = [NoUc EXCEPT !.pc = "analyze", !.runs = 1,
                            !.report = [commitsBehind |-> n, commit |-> 1,
                                        commits |-> log, urgency |-> "none"]]
    /\ su = NoSu
    /\ bh = NoBh

UrgencyNext == UcAnalyze

UrgencySpec == UrgencyInit /\ [][UrgencyNext]_vars

\* the urgency has been determined
Determined == uc.report.urgency # "none"

Modes == {"", "--restart", "--check", "--help", "--other"}

\* git rev-list --count HEAD..origin/main
MaxBehind == 2

\* the exit status of a git command that fails
GitFailure == 128

\* exit: the script ends with a status
Exit(status) == [su EXCEPT !.pc = "exited", !.exit = status]

\* a function called as a simple command where errexit is not ignored: a
\* status other than 0 ends the script with that status, before the next
\* command (update_exit=$?, exit $?) is run
Errexit(status, continue) == IF status # 0 THEN Exit(status) ELSE continue

\* main (lines 238-284): the case on the first argument
SuMain ==
    /\ su.pc = "idle"
    /\ \E mode \in Modes :
          su' = CASE mode = "--help" -> [Exit(0) EXCEPT !.mode = mode]
                  [] mode = "--other" -> [Exit(1) EXCEPT !.mode = mode]
                  [] OTHER -> [su EXCEPT !.pc = "preflight", !.mode = mode]
    /\ UNCHANGED <<validatorVars, now, vc, uc, bh>>

\* preflight (lines 53-88): die is exit 1
SuPreflight ==
    /\ su.pc = "preflight"
    /\ \E r \in {"passed", "fixedRemote", "noWorkspace", "noGit", "noRepository",
                  "noRemote"} :
          su' = IF r \in {"passed", "fixedRemote"}
                THEN [su EXCEPT !.preflight = r,
                                !.pc = IF su.mode = "--check" THEN "check_updates"
                                       ELSE "do_update"]
                ELSE [Exit(1) EXCEPT !.preflight = r]
    /\ UNCHANGED <<validatorVars, now, vc, uc, bh>>

\* check_updates (lines 94-123) and exit $? (line 260)
SuCheckUpdates ==
    /\ su.pc = "check_updates"
    /\ \/ su' = Exit(GitFailure)
       \/ \E behind \in 0..MaxBehind :
             LET status == IF behind = 0 THEN 2 ELSE 0
                 checked == [su EXCEPT !.fetched = TRUE, !.behind = behind,
                                       !.out = {IF behind = 0 THEN "UP_TO_DATE"
                                                ELSE "UPDATE_AVAILABLE"}]
             IN  su' = [checked EXCEPT !.pc = "exited", !.exit = status]
    /\ UNCHANGED <<validatorVars, now, vc, uc, bh>>

\* do_update up to the pull (lines 129-150), called at line 264 or 275: with
\* nothing to pull it returns 2
SuDoUpdate ==
    /\ su.pc = "do_update"
    /\ \/ su' = Exit(GitFailure)
       \/ \E behind \in 0..MaxBehind, dirty \in BOOLEAN :
             LET fetched == [su EXCEPT !.fetched = TRUE, !.behind = behind]
             IN  su' = IF behind = 0
                       THEN LET returned == [fetched EXCEPT !.out = @ \cup {"Already up to date."}]
                            IN  [returned EXCEPT !.pc = "update_exit", !.exit = 2]
                       ELSE [fetched EXCEPT !.pc = "pull", !.stashed = dirty]
    /\ UNCHANGED <<validatorVars, now, vc, uc, bh>>

\* do_update from the pull on (lines 152-187): a failed pull dies, a pull
\* that worked returns 0
SuPull ==
    /\ su.pc = "pull"
    /\ \/ su' = [Exit(1) EXCEPT !.popped = IF su.stashed THEN "popped" ELSE "none"]
       \/ \E pop \in {"popped", "conflicts"} :
             su' = [su EXCEPT !.pc = "update_exit", !.exit = 0, !.pulled = TRUE,
                              !.popped = IF su.stashed THEN pop ELSE "none",
                              !.out = @ \cup {"Updated successfully!"}]
    /\ UNCHANGED <<validatorVars, now, vc, uc, bh>>

\* the return of do_update reaches main (lines 264-272, 275-276): su.exit
\* holds the status do_update returned
SuUpdateExit ==
    /\ su.pc = "update_exit"
    /\ LET status == su.exit
           running == [su EXCEPT !.exit = -1]
           afterRestartCase ==
               IF status = 0 THEN [running EXCEPT !.pc = "do_restart"]
               ELSE IF status = 2
                    THEN [Exit(0) EXCEPT !.out = @ \cup {"No restart needed"}]
                    ELSE Exit(0)
       IN  su' = IF su.mode = "--restart"
                 THEN Errexit(status, afterRestartCase)
                 ELSE Errexit(status, Exit(status))
    /\ UNCHANGED <<validatorVars, now, vc, uc, bh>>

\* do_restart (lines 194-232) and exit 0 (line 272): systemctl, docker, or
\* pkill and nohup; a restart command that fails, or no way to restart
\* (return 1), ends the script under errexit
SuDoRestart ==
    /\ su.pc = "do_restart"
    /\ \E how \in {"systemctl", "docker", "nohup", "manual"}, worked \in BOOLEAN :
          LET status == IF how = "manual" \/ (~worked /\ how # "nohup") THEN 1 ELSE 0
              tried == [su EXCEPT !.restart = how]
          IN  su' = IF status # 0 THEN [tried EXCEPT !.pc = "exited", !.exit = status]
                    ELSE [tried EXCEPT !.pc = "exited", !.exit = 0,
                                       !.out = @ \cup {"Gateway restarted"}]
    /\ UNCHANGED <<validatorVars, now, vc, uc, bh>>

SelfUpdateInit ==
    /\ now = 0
    /\ ValidatorIdle
    /\ vc = NoVc
    /\ uc = NoUc
    /\ su = NoSu
    /\ bh = NoBh

SelfUpdateNext ==
    \/ SuMain
    \/ SuPreflight
    \/ SuCheckUpdates
    \/ SuDoUpdate
    \/ SuPull
    \/ SuUpdateExit
    \/ SuDoRestart

SelfUpdateSpec == SelfUpdateInit /\ [][SelfUpdateNext]_vars

\* C27: self-update.sh --restart exits 0 when an update was pulled and when
\* the workspace was already up to date; the restart is attempted only after
\* a successful pull; when already current the script says that no restart is
\* needed.
C27_RestartExitsZero ==
    (su.pc = "exited" /\ su.mode = "--restart" /\ su.fetched) =>
        /\ (su.pulled \/ su.behind = 0) => su.exit = 0
        /\ su.restart # "none" => su.pulled
        /\ su.behind = 0 => "No restart needed" \in su.out

(***************************************************************************)
(* browser-health-monitor.sh (src/scripts/browser-health-monitor.sh)       *)
(***************************************************************************)
\* the checks of run_health_checks (lines 124-129)
HealthChecks == 6

\* flock that grants the lock whoever holds it
flockShared(opened, lock) == opened

\* flock -n 200 (line 161): granted when fd 200 is open and nobody holds the
\* lock; it fails at once otherwise, a bad descriptor included
flock(opened, lock) == opened /\ lock = 0

\* return $issues (line 135) as the status the caller sees
ReturnStatus(issues) == issues % 256

\* cron or the heartbeat starts the script (lines 10-11, 178-179)
BhStart(i) ==
    /\ bh.inst[i].pc \in {"idle", "exited"}
    /\ bh' = [bh EXCEPT !.inst[i] = [IdleInstance EXCEPT !.pc = "open"]]
    /\ UNCHANGED <<validatorVars, now, vc, uc, su>>

\* exec 200>"$lockfile" (line 160): the file is opened, or the redirection
\* fails and the script goes on without fd 200
BhOpen(i) ==
    /\ bh.inst[i].pc = "open"
    /\ \E opened \in BOOLEAN :
          bh' = [bh EXCEPT !.inst[i].pc = "flock", !.inst[i].opened = opened]
    /\ UNCHANGED <<validatorVars, now, vc, uc, su>>

\* lines 161-166: with the lock the checks start; without it the script logs
\* and exits 0
BhFlock(i) ==
    /\ bh.inst[i].pc = "flock"
    /\ bh' = IF flock(bh.inst[i].opened, bh.lock)
             THEN [bh EXCEPT !.lock = i, !.inst[i].pc = "checks"]
             ELSE [bh EXCEPT !.inst[i].pc = "exited", !.inst[i].refused = TRUE,
                             !.inst[i].exit = 0]
    /\ UNCHANGED <<validatorVars, now, vc, uc, su>>

\* one line of 124-129: check_x || ((issues++))
BhCheck(i) ==
    /\ bh.inst[i].pc = "checks"
    /\ bh.inst[i].checked < HealthChecks
    /\ \E status \in {0, 1} :
          bh' = [bh EXCEPT !.inst[i].checked = @ + 1,
                           !.inst[i].issues = IF status # 0 THEN @ + 1 ELSE @]
    /\ UNCHANGED <<validatorVars, now, vc, uc, su>>

\* lines 134-135 and 168-172: if ! run_health_checks; then trigger_cleanup
BhChecked(i) ==
    /\ bh.inst[i].pc = "checks"
    /\ bh.inst[i].checked = HealthChecks
    /\ bh' = IF ReturnStatus(bh.inst[i].issues) # 0
             THEN [bh EXCEPT !.inst[i].pc = "cleanup", !.inst[i].triggered = TRUE]
             ELSE [bh EXCEPT !.inst[i].pc = "completed"]
    /\ UNCHANGED <<validatorVars, now, vc, uc, su>>

\* trigger_cleanup (lines 138-154): the cleanup script is run when it is
\* there and executable
BhCleanup(i) ==
    /\ bh.inst[i].pc = "cleanup"
    /\ \E done \in {"executed", "notExecutable"} :
          bh' = [bh EXCEPT !.inst[i].pc = "completed", !.inst[i].cleanup = done]
    /\ UNCHANGED <<validatorVars, now, vc, uc, su>>

\* line 174 and the end of the script: the process exits with the status of
\* log, its descriptors are closed and the lock is free
BhExit(i) ==
    /\ bh.inst[i].pc = "completed"
    /\ bh' = [bh EXCEPT !.lock = IF @ = i THEN 0 ELSE @,
                        !.inst[i].pc = "exited", !.inst[i].exit = 0]
    /\ UNCHANGED <<validatorVars, now, vc, uc, su>>

HealthInit ==
    /\ now = 0
    /\ ValidatorIdle
    /\ vc = NoVc
    /\ uc = NoUc
    /\ su = NoSu
    /\ bh = NoBh

HealthNext ==
    \/ \E i \in Instances : BhStart(i)
    \/ \E i \in Instances : BhOpen(i)
    \/ \E i \in Instances : BhFlock(i)
    \/ \E i \in Instances : BhCheck(i)
    \/ \E i \in Instances : BhChecked(i)
    \/ \E i \in Instances : BhCleanup(i)
    \/ \E i \in Instances : BhExit(i)

HealthSpec == HealthInit /\ [][HealthNext]_vars

\* the instance is running the health checks or the cleanup
Checking(i) == bh.inst[i].pc \in {"checks", "cleanup", "completed"}

\* C28: at most one instance runs the health checks and the cleanup at a
\* time, and it holds the lock; an instance that finds the lock taken exits 0
\* and has run no check; trigger_cleanup is called exactly when
\* run_health_checks has counted at least one issue.
C28_MutualExclusion ==
    /\ \A i, j \in Instances : (Checking(i) /\ Checking(j)) => i = j
    /\ \A i \in Instances :
          /\ Checking(i) => bh.lock = i
          /\ bh.inst[i].refused =>
                /\ bh.inst[i].pc = "exited"
                /\ bh.inst[i].exit = 0
                /\ bh.inst[i].checked = 0
                /\ ~bh.inst[i].triggered
          /\ bh.inst[i].triggered => bh.inst[i].checked = HealthChecks
          /\ (bh.inst[i].pc \in {"cleanup", "completed", "exited"}
                  /\ ~bh.inst[i].refused) =>
                (bh.inst[i].triggered <=> bh.inst[i].issues >= 1)
          /\ bh.inst[i].cleanup # "none" => bh.inst[i].triggered

\* instance 1 is in the cleanup after two issues, holding the lock, and
\* instance 2, started meanwhile, has exited 0 without a check
C28_Witness ==
    /\ bh.inst[1].pc = "cleanup"
    /\ bh.inst[1].issues = 2
    /\ bh.lock = 1
    /\ bh.inst[2].pc = "exited"
    /\ bh.inst[2].refused
    /\ bh.inst[2].opened
    /\ bh.inst[2].exit = 0
    /\ bh.inst[2].checked = 0
====
